---- MODULE Spec2Model ----
(***************************************************************************)
(* A model of the two scripts of pyspark-audio-features:                   *)
(*   scripts/download.py  the checksum-verified archive downloader         *)
(*   scripts/convert.py   the mp3 -> wav batch transcoder (thread pool)    *)
(* The two scripts are independent programs; each has its own              *)
(* specification over the shared variable list:                            *)
(*   Spec        a run of download.py (main .. exit)                       *)
(*   SpecSample  repeated runs of download_sample's selection              *)
(*   SpecConv    a run of convert.py's convert_all                         *)
(***************************************************************************)
EXTENDS Integers, Sequences, FiniteSets, TLC

VARIABLES
    \* ---- download.py
    missing,     \* which manifest file is absent from assets/: "none", "tars", "tracks"
    tarLines,    \* lines of SHA256_TARS_FILE, each <<sha, name>>
    trackSums,   \* load_track_checksums(): member name -> digest
    fs,          \* files under OUTPUT_DIR: path -> content
    pc,          \* position of the downloader's single thread
    tar_names,   \* the list handed to _download_tars
    idx,         \* position of the for loop of _download_tars (1-based)
    midx,        \* position of the for loop of unpack_and_verify (1-based)
    err,         \* the exception that ended the run, or NoErr
    exit,        \* process exit status: -1 while running, 0 success, 1 traceback
    log,         \* history: the I/O operations performed, in order
    got,         \* history: archive name -> content written by download_file this run
    \* ---- download_sample across runs
    entropy,     \* OS entropy / wall clock: what an unseeded generator would read
    runs,        \* history: one record per completed selection
    \* ---- convert.py
    files,       \* list(SRC_DIR.rglob("*.mp3")), each <<dir, stem>>
    status,      \* per work item: "queued", "running", "transcoded", "done", "failed"
    srcs,        \* the mp3 paths that exist under SRC_DIR
    rc,          \* per work item: exit code of its ffmpeg process, -1 while it has none
    wav,         \* DST_DIR: stem -> index of the item whose output the file holds, 0 if absent
    cpc          \* position of convert.py's main thread

vars == <<missing, tarLines, trackSums, fs, pc, tar_names, idx, midx, err, exit,
          log, got, entropy, runs, files, status, srcs, rc, wav, cpc>>

dlVars == <<missing, tarLines, trackSums, fs, pc, tar_names, idx, midx, err, log, got>>
sampleVars == <<entropy, runs>>
convVars == <<files, status, srcs, rc, wav, cpc>>

----------------------------------------------------------------------------
\* Bounds of the model.

\* archives on the CDN in a downloader run
NumTars == 2
\* regular-file members per archive (each archive also holds one directory entry)
MembersPerTar == 2
\* entries of the track manifest that disagree with the archives' contents
MaxFlaws == 2
\* names in the archive manifest when only the selection is run
MaxNames == 41
\* selections recorded in one behaviour of SpecSample
MaxRuns == 2
\* values the OS entropy source takes
NumEntropy == 2
\* mp3 files discovered under SRC_DIR
MaxFiles == 7
\* directories of SRC_DIR the mp3 files are spread over
NumDirs == 2

\* Program constants.
SEED == 42
MAX_WORKERS == 6

----------------------------------------------------------------------------
\* Generic helpers.

Max(a, b) == IF a >= b THEN a ELSE b

Range(s) == {s[i] : i \in DOMAIN s}

Swap(x, i, j) == [x EXCEPT ![i] = x[j], ![j] = x[i]]

----------------------------------------------------------------------------
\* File contents, digests and paths of the downloader.

Tars == 1..NumTars

Absent == [kind |-> "absent", id |-> <<0, 0>>, good |-> TRUE]

\* The bytes of archive t: the CDN's published archive (good) or any other bytes.
TarContent(t, good) == [kind |-> "tar", id |-> <<t, 0>>, good |-> good]

\* The bytes of track k of archive t.
TrackContent(t, k, good) == [kind |-> "file", id |-> <<t, k>>, good |-> good]

DirContent(t) == [kind |-> "dir", id |-> <<t, 0>>, good |-> TRUE]

PartialContent(t) == [kind |-> "partial", id |-> <<t, 0>>, good |-> FALSE]

\* hashlib.sha256 over the whole file: distinct contents have distinct digests.
compute_sha256(content) == [sha256 |-> content]

\* OUTPUT_DIR / tar_name
TarPath(t) == <<"tar", t, 0>>

\* OUTPUT_DIR / m.name ; member names are <<t, k>>, k = 0 the directory entry
MemberPath(name) == <<"out", name[1], name[2]>>

\* the NamedTemporaryFile download_file writes into OUTPUT_DIR
TmpPath == <<"tmp", 0, 0>>

MemberNames(ts) == {<<t, k>> : t \in ts, k \in 0..MembersPerTar}

TrackNames(ts) == {<<t, k>> : t \in ts, k \in 1..MembersPerTar}

Paths(ts) == {TarPath(t) : t \in ts} \cup {MemberPath(n) : n \in MemberNames(ts)} \cup {TmpPath}

\* tar.getmembers() of an archive file: a directory entry, then the tracks.
getmembers(content) ==
    [k \in 1..(MembersPerTar + 1) |->
        [name |-> <<content.id[1], k - 1>>,
         isfile |-> k > 1,
         data |-> IF k = 1 THEN DirContent(content.id[1])
                  ELSE TrackContent(content.id[1], k - 1, content.good)]]

existsNever(f, p) == FALSE

\* Path.exists
exists(f, p) == f[p] # Absent

unlinkNoop(f, p) == f

\* Path.unlink
unlink(f, p) == [f EXCEPT ![p] = Absent]

checksum_unchecked(content, expected) == TRUE

\* compute_sha256(path) != expected, negated: the digest comparison of lines 97 and 118
checksum_matches(content, expected) == compute_sha256(content) = expected

member_unchecked(m, sums) == FALSE

\* unpack_and_verify, lines 90-94: only regular files listed in the track manifest are hashed
member_checked(m, sums) == m.isfile /\ m.name \in DOMAIN sums

\* tar.extractall(OUTPUT_DIR): every member is written under OUTPUT_DIR.
extractall(f, content) ==
    LET ms == getmembers(content)
    IN  [p \in DOMAIN f |->
            IF \E k \in DOMAIN ms : MemberPath(ms[k].name) = p
            THEN (CHOOSE m \in Range(ms) : MemberPath(m.name) = p).data
            ELSE f[p]]

----------------------------------------------------------------------------
\* The manifests.

\* One line of the archive manifest: "<hex digest> <name>".
TarLine(t) == <<compute_sha256(TarContent(t, TRUE)), t>>

KeysWithRepeats(lines) == [i \in DOMAIN lines |-> lines[i][2]]

\* list(load_tar_checksums().keys()): a dict keeps each name once, in the order
\* of its first line.
Keys(lines) ==
    LET firsts == {i \in DOMAIN lines : \A j \in 1..(i - 1) : lines[j][2] # lines[i][2]}
    IN  [k \in 1..Cardinality(firsts) |->
            lines[CHOOSE i \in firsts : Cardinality({j \in firsts : j <= i}) = k][2]]

\* load_tar_checksums()[name]: the digest of the last line that carries the name.
TarSum(lines, name) ==
    LET last == CHOOSE i \in DOMAIN lines :
                    /\ lines[i][2] = name
                    /\ \A j \in DOMAIN lines : lines[j][2] = name => j <= i
    IN  lines[last][1]

\* The manifest with names 1..n, and optionally the first name listed again at the end.
ManifestOf(n, dup) ==
    LET base == [i \in 1..n |-> TarLine(i)]
    IN  IF dup /\ n > 0 THEN Append(base, TarLine(1)) ELSE base

\* The track manifest for the archives ts with the entries `flaws` wrong:
\* <<name, "bad">> carries the digest of other bytes, <<name, "unlisted">> has no line.
TrackManifest(ts, flaws) ==
    [n \in {m \in TrackNames(ts) : <<m, "unlisted">> \notin flaws} |->
        compute_sha256(TrackContent(n[1], n[2], <<n, "bad">> \notin flaws))]

----------------------------------------------------------------------------
\* download_sample's selection.

\* The generator stands for random.Random: a deterministic sequence fixed by
\* its seed (a linear congruential step stands for the Mersenne Twister).
LcgStep(g) == (g * 75 + 74) % 65537

SeedFromEntropy(seed) == LcgStep(entropy)

\* random.Random(SEED): a fresh generator whose state is a function of the seed alone.
Random(seed) == LcgStep(seed % 65537)

\* Random._randbelow(n)
randbelow(g, n) == (g \div 7) % n

\* Random.shuffle: for i in reversed(range(1, len(x))): j = randbelow(i + 1); swap
\* (i counts from 1 here; a list shorter than 2 is left alone, the generator
\* state is never negative)
RECURSIVE ShuffleFrom(_, _, _)
ShuffleFrom(x, i, g) ==
    IF i < 2 \/ Len(x) < 2 \/ g < 0 THEN x
    ELSE ShuffleFrom(Swap(x, i, 1 + randbelow(g, i)), i - 1, LcgStep(g))

shuffle(g, x) == ShuffleFrom(x, Len(x), g)

SampleSizeNoMin(n) == (n * 5) \div 100

\* max(1, int(len(tar_names) * 0.05)); int(n * 0.05) is floor(n / 20) for every
\* n a manifest can have (the double nearest 0.05 lies above 0.05 by less than 1e-17).
SampleSize(n) == Max(1, (n * 5) \div 100)

\* tar_names[:k]
Prefix(x, k) == SubSeq(x, 1, IF k < Len(x) THEN k ELSE Len(x))

\* download_sample, lines 142-147
SelectSample(lines) ==
    LET names == Keys(lines)
    IN  Prefix(shuffle(Random(SEED), names), SampleSize(Len(names)))

\* download, lines 131-132
SelectFull(lines) == Keys(lines)

----------------------------------------------------------------------------
\* A run of download.py.

NoErr == [kind |-> "none", subject |-> <<0, 0>>]

Error(kind, subject) == [kind |-> kind, subject |-> subject]

ConvIdle ==
    /\ files = <<>>
    /\ status = <<>>
    /\ srcs = {}
    /\ rc = <<>>
    /\ wav = <<>>
    /\ cpc = "idle"

SampleIdle ==
    /\ entropy = 0
    /\ runs = <<>>

\* The state at process start: the manifests under assets/ and the archive
\* files an earlier run left in OUTPUT_DIR (skipped downloads are decided on
\* these). Tracks extracted by earlier runs are not placed on disk, so that a
\* member found in OUTPUT_DIR is one this run extracted.
Init ==
    /\ missing \in {"none", "tars", "tracks"}
    /\ \E dup \in BOOLEAN :
          /\ missing # "none" => ~dup
          /\ tarLines = ManifestOf(NumTars, dup)
    /\ \E flaws \in SUBSET (TrackNames(Tars) \X {"bad", "unlisted"}) :
          /\ Cardinality(flaws) <= MaxFlaws
          /\ missing # "none" => flaws = {}
          /\ trackSums = TrackManifest(Tars, flaws)
    /\ \E left \in [Tars -> {"absent", "good", "corrupt"}] :
          /\ missing # "none" => \A t \in Tars : left[t] = "absent"
          /\ fs = [p \in Paths(Tars) |->
                      IF \E t \in Tars : p = TarPath(t) /\ left[t] # "absent"
                      THEN LET t == CHOOSE u \in Tars : p = TarPath(u)
                           IN  TarContent(t, left[t] = "good")
                      ELSE Absent]
    /\ pc = "main"
    /\ tar_names = <<>>
    /\ idx = 0
    /\ midx = 0
    /\ err = NoErr
    /\ exit = -1
    /\ log = <<>>
    /\ got = [t \in Tars |-> Absent]
    /\ SampleIdle
    /\ ConvIdle

\* An uncaught exception: the traceback is printed and the process exits 1.
Raise(e) ==
    /\ err' = e
    /\ pc' = "failed"
    /\ exit' = 1

\* main -> download / download_sample -> _download_tars up to the for loop,
\* with a manifest file absent: open() raises FileNotFoundError.
MainMissingManifest ==
    /\ pc = "main"
    /\ missing # "none"
    /\ Raise(Error("FileNotFoundError", <<0, 0>>))
    /\ UNCHANGED <<missing, tarLines, trackSums, fs, tar_names, idx, midx, log, got>>
    /\ UNCHANGED <<sampleVars, convVars>>

\* main: "--full" in sys.argv selects download(), otherwise download_sample();
\* then _download_tars loads both manifests and enters its loop.
Main(full) ==
    /\ pc = "main"
    /\ missing = "none"
    /\ tar_names' = IF full THEN SelectFull(tarLines) ELSE SelectSample(tarLines)
    /\ idx' = 1
    /\ pc' = "loop"
    /\ UNCHANGED <<missing, tarLines, trackSums, fs, midx, err, exit, log, got>>
    /\ UNCHANGED <<sampleVars, convVars>>

\* _download_tars, lines 109-112: the archive file is already there.
LoopSkip ==
    /\ pc = "loop"
    /\ idx <= Len(tar_names)
    /\ exists(fs, TarPath(tar_names[idx]))
    /\ idx' = idx + 1
    /\ UNCHANGED <<missing, tarLines, trackSums, fs, pc, tar_names, midx, err, exit, log, got>>
    /\ UNCHANGED <<sampleVars, convVars>>

\* _download_tars: the for loop is exhausted, main returns, exit status 0.
LoopEnd ==
    /\ pc = "loop"
    /\ idx > Len(tar_names)
    /\ pc' = "done"
    /\ exit' = 0
    /\ UNCHANGED <<missing, tarLines, trackSums, fs, tar_names, idx, midx, err, log, got>>
    /\ UNCHANGED <<sampleVars, convVars>>

\* download_file succeeds: the response body (the published archive, or other
\* bytes) is streamed to a temporary file which is moved onto tar_path.
DownloadOk(good) ==
    /\ pc = "loop"
    /\ idx <= Len(tar_names)
    /\ ~exists(fs, TarPath(tar_names[idx]))
    /\ LET t == tar_names[idx]
       IN  /\ fs' = [fs EXCEPT ![TarPath(t)] = TarContent(t, good)]
           /\ got' = [got EXCEPT ![t] = TarContent(t, good)]
           /\ log' = Append(log, <<"GET", t, 0>>)
    /\ pc' = "verify"
    /\ UNCHANGED <<missing, tarLines, trackSums, tar_names, idx, midx, err, exit>>
    /\ UNCHANGED <<sampleVars, convVars>>

\* download_file fails: requests raises, either before the temporary file is
\* created (connection error, raise_for_status) or while the body is streamed,
\* which leaves the temporary file (delete=False) behind.
DownloadFail(midstream) ==
    /\ pc = "loop"
    /\ idx <= Len(tar_names)
    /\ ~exists(fs, TarPath(tar_names[idx]))
    /\ LET t == tar_names[idx]
       IN  /\ fs' = IF midstream THEN [fs EXCEPT ![TmpPath] = PartialContent(t)] ELSE fs
           /\ log' = Append(log, <<"GET", t, 0>>)
           /\ Raise(Error("NetworkError", <<t, 0>>))
    /\ UNCHANGED <<missing, tarLines, trackSums, tar_names, idx, midx, got>>
    /\ UNCHANGED <<sampleVars, convVars>>

\* _download_tars, lines 118-120: hash the archive, compare with the manifest.
VerifyTar ==
    /\ pc = "verify"
    /\ LET t == tar_names[idx]
       IN  /\ log' = Append(log, <<"sha256", t, 0>>)
           /\ IF checksum_matches(fs[TarPath(t)], TarSum(tarLines, t))
              THEN /\ pc' = "unpack"
                   /\ UNCHANGED <<fs, err, exit>>
              ELSE /\ fs' = unlink(fs, TarPath(t))
                   /\ Raise(Error("BadChecksum", <<t, 0>>))
    /\ UNCHANGED <<missing, tarLines, trackSums, tar_names, idx, midx, got>>
    /\ UNCHANGED <<sampleVars, convVars>>

\* unpack_and_verify, lines 85-87: read the member list and extract everything.
Extract ==
    /\ pc = "unpack"
    /\ LET t == tar_names[idx]
       IN  /\ fs' = extractall(fs, fs[TarPath(t)])
           /\ log' = Append(log, <<"extractall", t, 0>>)
    /\ midx' = 1
    /\ pc' = "members"
    /\ UNCHANGED <<missing, tarLines, trackSums, tar_names, idx, err, exit, got>>
    /\ UNCHANGED <<sampleVars, convVars>>

\* unpack_and_verify, lines 89-98: one iteration of the loop over the members,
\* or the return from the function when the members are exhausted.
VerifyMember ==
    /\ pc = "members"
    /\ LET ms == getmembers(fs[TarPath(tar_names[idx])])
       IN  IF midx > Len(ms)
           THEN /\ pc' = "unlink"
                /\ UNCHANGED <<midx, err, exit, log>>
           ELSE LET m == ms[midx]
                IN  IF ~member_checked(m, trackSums)
                    THEN /\ midx' = midx + 1
                         /\ UNCHANGED <<pc, err, exit, log>>
                    ELSE /\ log' = Append(log, <<"sha256", m.name[1], m.name[2]>>)
                         /\ IF checksum_matches(fs[MemberPath(m.name)], trackSums[m.name])
                            THEN /\ midx' = midx + 1
                                 /\ UNCHANGED <<pc, err, exit>>
                            ELSE /\ Raise(Error("ChecksumMismatch", m.name))
                                 /\ UNCHANGED midx
    /\ UNCHANGED <<missing, tarLines, trackSums, fs, tar_names, idx, got>>
    /\ UNCHANGED <<sampleVars, convVars>>

\* _download_tars, line 123: remove the verified archive, go to the next name.
UnlinkTar ==
    /\ pc = "unlink"
    /\ LET t == tar_names[idx]
       IN  /\ fs' = unlink(fs, TarPath(t))
           /\ log' = Append(log, <<"unlink", t, 0>>)
    /\ idx' = idx + 1
    /\ pc' = "loop"
    /\ UNCHANGED <<missing, tarLines, trackSums, tar_names, midx, err, exit, got>>
    /\ UNCHANGED <<sampleVars, convVars>>

Next ==
    \/ MainMissingManifest
    \/ \E full \in BOOLEAN : Main(full)
    \/ LoopSkip
    \/ LoopEnd
    \/ \E good \in BOOLEAN : DownloadOk(good)
    \/ \E midstream \in BOOLEAN : DownloadFail(midstream)
    \/ VerifyTar
    \/ Extract
    \/ VerifyMember
    \/ UnlinkTar

Spec == Init /\ [][Next]_vars

----------------------------------------------------------------------------
\* Runs of download_sample's selection (lines 142-147), one after another, on
\* the same manifest file.

DlIdle ==
    /\ missing = "none"
    /\ trackSums = <<>>
    /\ fs = <<>>
    /\ pc = "idle"
    /\ tar_names = <<>>
    /\ idx = 0
    /\ midx = 0
    /\ err = NoErr
    /\ log = <<>>
    /\ got = <<>>

InitSample ==
    /\ \E n \in 0..MaxNames, dup \in BOOLEAN : tarLines = ManifestOf(n, dup)
    /\ entropy \in 1..NumEntropy
    /\ runs = <<>>
    /\ exit = -1
    /\ DlIdle
    /\ ConvIdle

\* One process runs download_sample up to the call of _download_tars; the
\* entropy source has moved on when the next process starts.
RunSample ==
    /\ Len(runs) < MaxRuns
    /\ runs' = Append(runs, [lines |-> tarLines, entropy |-> entropy,
                             sample |-> SelectSample(tarLines)])
    /\ entropy' \in 1..NumEntropy
    /\ UNCHANGED <<dlVars, exit, convVars>>

NextSample == RunSample

SpecSample == InitSample /\ [][NextSample]_vars

----------------------------------------------------------------------------
\* A run of convert.py.

\* DST_DIR / f"{src.stem}.wav": the directory part of the source is dropped.
Dst(src) == src[2]

\* n files spread round-robin over d directories of SRC_DIR (directory 0 is
\* SRC_DIR itself): <<0,1>>, <<1,1>>, .., <<d-1,1>>, <<0,2>>, ..
Listing(n, d) == [i \in 1..n |-> <<(i - 1) % d, ((i - 1) \div d) + 1>>]

Listings == {Listing(n, d) : n \in 0..MaxFiles, d \in 1..NumDirs}

\* list(SRC_DIR.rglob("*.mp3")): every mp3 file at any depth, once.
rglob(tree) == CHOOSE l \in Listings : Range(l) = tree

InitConv ==
    /\ \E l \in Listings : srcs = Range(l)
    /\ files = <<>>
    /\ status = <<>>
    /\ rc = <<>>
    /\ wav = <<>>
    /\ cpc = "start"
    /\ exit = -1
    /\ tarLines = <<>>
    /\ DlIdle
    /\ SampleIdle

\* convert_all, lines 44-52: discover the files; return if there are none,
\* otherwise submit one work item per file.
ConvertAllStart ==
    /\ cpc = "start"
    /\ files' = rglob(srcs)
    /\ status' = [i \in DOMAIN files' |-> "queued"]
    /\ rc' = [i \in DOMAIN files' |-> -1]
    /\ wav' = [s \in {Dst(f) : f \in srcs} |-> 0]
    /\ IF files' = <<>>
       THEN cpc' = "returned" /\ exit' = 0
       ELSE cpc' = "waiting" /\ UNCHANGED exit
    /\ UNCHANGED <<srcs, dlVars, sampleVars>>

Busy(st) == Cardinality({i \in DOMAIN st : st[i] \in {"running", "transcoded"}})

\* A pool thread takes the oldest queued work item (the pool's queue is FIFO;
\* at most MAX_WORKERS threads exist) and convert_one starts ffmpeg.
Start(i) ==
    /\ cpc = "waiting"
    /\ status[i] = "queued"
    /\ \A j \in 1..(i - 1) : status[j] # "queued"
    /\ Busy(status) < MAX_WORKERS
    /\ status' = [status EXCEPT ![i] = "running"]
    /\ UNCHANGED <<files, srcs, rc, wav, cpc, exit, dlVars, sampleVars>>

AfterRunNoCheck(code) == "transcoded"

\* subprocess.run(cmd, check=True): returns on exit code 0, raises
\* CalledProcessError otherwise; the exception is stored in the item's future.
AfterRun(code) == IF code = 0 THEN "transcoded" ELSE "failed"

\* The ffmpeg process of item i exits; on success it has written the destination.
Ffmpeg(i, code) ==
    /\ status[i] = "running"
    /\ rc' = [rc EXCEPT ![i] = code]
    /\ wav' = IF code = 0 THEN [wav EXCEPT ![Dst(files[i])] = i] ELSE wav
    /\ status' = [status EXCEPT ![i] = AfterRun(code)]
    /\ UNCHANGED <<files, srcs, cpc, exit, dlVars, sampleVars>>

\* convert_one, lines 39-40: src.unlink() and return.
Unlink(i) ==
    /\ status[i] = "transcoded"
    /\ IF files[i] \in srcs
       THEN /\ srcs' = srcs \ {files[i]}
            /\ status' = [status EXCEPT ![i] = "done"]
       ELSE /\ status' = [status EXCEPT ![i] = "failed"]
            /\ UNCHANGED srcs
    /\ UNCHANGED <<files, rc, wav, cpc, exit, dlVars, sampleVars>>

AnyFinished(st) == \E i \in DOMAIN st : st[i] \in {"done", "failed"}

\* as_completed(futures) is exhausted and the pool's shutdown(wait=True) has
\* returned: every future is finished (has a result or an exception).
AllFinished(st) == \A i \in DOMAIN st : st[i] \in {"done", "failed"}

\* convert_all, lines 54-55 and the end of the with block: the loop body never
\* asks a future for its result, convert_all returns None and the interpreter
\* exits with status 0.
Join ==
    /\ cpc = "waiting"
    /\ AllFinished(status)
    /\ cpc' = "returned"
    /\ exit' = 0
    /\ UNCHANGED <<files, status, srcs, rc, wav, dlVars, sampleVars>>

NextConv ==
    \/ ConvertAllStart
    \/ \E i \in DOMAIN status : Start(i)
    \/ \E i \in DOMAIN status, code \in {0, 1} : Ffmpeg(i, code)
    \/ \E i \in DOMAIN status : Unlink(i)
    \/ Join

SpecConv == InitConv /\ [][NextConv]_vars

----------------------------------------------------------------------------
\* Properties of the downloader (checked under Spec).

\* the digest the archive manifest publishes for archive t
Published(t) == TarSum(tarLines, t)

Logged(op, t) == \E i \in DOMAIN log : log[i] = <<op, t, 0>>

\* the archives of tar_names that come after the current one
Later == {tar_names[j] : j \in (idx + 1)..Len(tar_names)}

\* C1: once the hash comparison of a downloaded archive whose digest differs
\* from its manifest entry has been made, the run has failed with the
\* archive-level checksum error for that archive and the archive's path does
\* not exist on disk.
C1_CorruptArchiveRemoved ==
    \A t \in Tars :
        ( /\ got[t] # Absent
          /\ compute_sha256(got[t]) # Published(t)
          /\ ~(pc = "verify" /\ tar_names[idx] = t) )
        => /\ pc = "failed"
           /\ exit = 1
           /\ err = Error("BadChecksum", <<t, 0>>)
           /\ fs[TarPath(t)] = Absent

C1_Witness ==
    \E t \in Tars :
        /\ got[t] = TarContent(t, FALSE)
        /\ pc = "failed"
        /\ err = Error("BadChecksum", <<t, 0>>)
        /\ fs[TarPath(t)] = Absent

\* C2: unpack_and_verify starts only for an archive that was downloaded in this
\* run, hashed, and found equal to the manifest digest; and a member is present
\* in the output root only if its archive was extracted that way.
C2_ExtractOnlyVerified ==
    /\ \A i \in DOMAIN log :
          log[i][1] = "extractall" =>
             /\ got[log[i][2]] # Absent
             /\ compute_sha256(got[log[i][2]]) = Published(log[i][2])
             /\ \E j \in 1..(i - 1) : log[j] = <<"sha256", log[i][2], 0>>
    /\ pc \in {"unpack", "members", "unlink"} =>
          /\ compute_sha256(got[tar_names[idx]]) = Published(tar_names[idx])
          /\ Logged("sha256", tar_names[idx])
    /\ \A n \in MemberNames(Tars) :
          fs[MemberPath(n)] # Absent => Logged("extractall", n[1])

C2_Witness ==
    \E t \in Tars :
        /\ Logged("extractall", t)
        /\ \A n \in MemberNames({t}) : fs[MemberPath(n)] # Absent
        /\ \E u \in Tars : got[u] = TarContent(u, FALSE) /\ ~Logged("extractall", u)

\* C3: when the archive file of the current name already exists, the step of
\* the loop performs no request, no hash, no extraction, changes no file and
\* moves on to the next name.
C3_ExistingArchiveSkipped ==
    [][ ( /\ pc = "loop"
          /\ idx <= Len(tar_names)
          /\ fs[TarPath(tar_names[idx])] # Absent )
        => ( /\ log' = log
             /\ fs' = fs
             /\ got' = got
             /\ err' = err
             /\ exit' = exit
             /\ pc' = "loop"
             /\ idx' = idx + 1 ) ]_vars

\* a corrupt archive file left by an earlier run has been skipped, and the
\* run went on to download the next archive
C3_Witness ==
    /\ Len(tar_names) > 1
    /\ idx > 1
    /\ fs[TarPath(tar_names[1])] = TarContent(tar_names[1], FALSE)
    /\ ~Logged("GET", tar_names[1])
    /\ ~Logged("sha256", tar_names[1])
    /\ Logged("GET", tar_names[2])

\* the tracks of archive t whose track-manifest digest differs from the digest
\* of the track's bytes in the published archive
BadTracks(t) ==
    {k \in 1..MembersPerTar :
        /\ <<t, k>> \in DOMAIN trackSums
        /\ trackSums[<<t, k>>] # compute_sha256(TrackContent(t, k, TRUE))}

FirstBad(t) == CHOOSE k \in BadTracks(t) : \A j \in BadTracks(t) : k <= j

\* C4: once the members of an extracted archive with a mismatching listed
\* member have been gone through, the run has failed with the member-level
\* error naming the first such member in archive order, nothing was done for
\* any later archive, and every extracted file is still on disk.
C4_MemberMismatchHalts ==
    \A t \in Tars :
        ( /\ Logged("extractall", t)
          /\ BadTracks(t) # {}
          /\ ~(pc = "members" /\ tar_names[idx] = t) )
        => /\ pc = "failed"
           /\ exit = 1
           /\ err = Error("ChecksumMismatch", <<t, FirstBad(t)>>)
           /\ tar_names[idx] = t
           /\ \A u \in Later : \A i \in DOMAIN log : log[i][2] # u
           /\ \A u \in Later : got[u] = Absent
           /\ \A i \in DOMAIN log :
                 log[i][1] = "extractall" =>
                    \A k \in 1..MembersPerTar :
                       fs[MemberPath(<<log[i][2], k>>)] = TrackContent(log[i][2], k, TRUE)

\* two listed members of the first archive mismatch, the error names the
\* first, and a later archive of the list was never touched
C4_Witness ==
    /\ pc = "failed"
    /\ err.kind = "ChecksumMismatch"
    /\ Cardinality(BadTracks(err.subject[1])) > 1
    /\ err.subject[2] = FirstBad(err.subject[1])
    /\ Later # {}
    /\ \A k \in 1..MembersPerTar : fs[MemberPath(<<err.subject[1], k>>)] # Absent

\* an error occurred in the run: the downloader raised, or an ffmpeg process
\* of the transcoder exited non-zero
ErrorOccurred == err # NoErr \/ \E i \in DOMAIN rc : rc[i] > 0

\* C9: a run in which an error occurred does not end with exit status 0.
C9_ErrorsFailRun == (exit # -1 /\ ErrorOccurred) => exit # 0

----------------------------------------------------------------------------
\* Properties of the selection (checked under SpecSample).

\* the archive names of a manifest file
NamesOf(lines) == {lines[i][2] : i \in DOMAIN lines}

Distinct(x) == \A i, j \in DOMAIN x : i # j => x[i] # x[j]

\* C8 as stated: for every N >= 0 the sample holds exactly max(1, floor(N/20))
\* distinct names of the manifest.
C8_SampleSize ==
    \A r \in DOMAIN runs :
        LET N == Cardinality(NamesOf(runs[r].lines))
        IN  /\ Len(runs[r].sample) = Max(1, N \div 20)
            /\ Distinct(runs[r].sample)
            /\ Range(runs[r].sample) \subseteq NamesOf(runs[r].lines)

\* C8 amended: for every N >= 1 the sample holds exactly max(1, floor(N/20))
\* distinct names of the manifest; for N = 0 the sample is empty.
C8_SampleSizeAmended ==
    \A r \in DOMAIN runs :
        LET N == Cardinality(NamesOf(runs[r].lines))
        IN  /\ Len(runs[r].sample) = (IF N = 0 THEN 0 ELSE Max(1, N \div 20))
            /\ Distinct(runs[r].sample)
            /\ Range(runs[r].sample) \subseteq NamesOf(runs[r].lines)

\* a manifest of at least 40 names, one of them listed twice, gave 2 names
C8_Witness ==
    \E r \in DOMAIN runs :
        /\ Cardinality(NamesOf(runs[r].lines)) >= 40
        /\ Len(runs[r].lines) > Cardinality(NamesOf(runs[r].lines))
        /\ Len(runs[r].sample) = 2

----------------------------------------------------------------------------
\* Properties of the transcoder (checked under SpecConv).

\* C5: a source file is absent only if its ffmpeg process exited with 0, and
\* a work item whose process exited non-zero has failed with its source in place.
C5_SourceRemovedAfterSuccess ==
    \A i \in DOMAIN status :
        /\ files[i] \notin srcs => rc[i] = 0
        /\ rc[i] > 0 => (files[i] \in srcs /\ status[i] = "failed")

C5_Witness ==
    /\ \E i \in DOMAIN status : rc[i] = 0 /\ status[i] = "done" /\ files[i] \notin srcs
    /\ \E i \in DOMAIN status : rc[i] = 1 /\ status[i] = "failed" /\ files[i] \in srcs

\* C6: convert_all has returned only if every submitted item has completed or
\* raised after running its own process; and while it waits with items
\* unfinished, some unfinished item can take its next step (nothing that
\* happened to another item blocks the pool), so that it does return once
\* every process has terminated.
C6_JoinsEveryItem ==
    /\ cpc = "returned" =>
          \A i \in DOMAIN status : status[i] \in {"done", "failed"} /\ rc[i] # -1
    /\ (cpc = "waiting" /\ \E i \in DOMAIN status : status[i] \notin {"done", "failed"}) =>
          \E i \in DOMAIN status :
              \/ ENABLED Start(i)
              \/ ENABLED Ffmpeg(i, 0)
              \/ ENABLED Unlink(i)
    /\ (cpc = "waiting" /\ \A i \in DOMAIN status : status[i] \in {"done", "failed"}) =>
          ENABLED Join

\* more items than workers, the first one failed, the last one completed
C6_Witness ==
    /\ cpc = "returned"
    /\ Len(files) > MAX_WORKERS
    /\ status[1] = "failed"
    /\ status[Len(files)] = "done"

\* C7: any two distinct work items have distinct sources and distinct
\* destinations, and no two running workers write the same destination file.
C7_DisjointPaths ==
    /\ \A i, j \in DOMAIN files :
          i # j => (files[i] # files[j] /\ Dst(files[i]) # Dst(files[j]))
    /\ \A i, j \in DOMAIN status :
          (i # j /\ status[i] = "running" /\ status[j] = "running")
             => Dst(files[i]) # Dst(files[j])

====
